---- MODULE Spec2Model ----
(***************************************************************************)
(* The casting-agency backend of projects/capstone/starter: eight routes   *)
(* over two tables (actors, movies), each behind requires_auth(scope).     *)
(*                                                                         *)
(* app.py and models.py are translated from the source.  auth.py (the      *)
(* AuthError exception and the requires_auth decorator app.py imports) and *)
(* config.py are not part of the source tree at hand; the authorization    *)
(* chain is modelled from sections 4.1-4.4 and 7 of the specification and  *)
(* is marked as such where it is defined.                                  *)
(*                                                                         *)
(* One request is in flight at a time.  A request moves through the guard  *)
(* (Decode, Verify, Authorize), then either its route handler or the       *)
(* AuthError handler writes the response.                                  *)
(***************************************************************************)
EXTENDS Integers, Sequences, FiniteSets, TLC

VARIABLES
    actors,         \* table actors: set of rows [id, name, gender, age]
    movies,         \* table movies: set of rows [id, title, release_date]
    actors_id_seq,  \* next value of the serial primary key of actors
    movies_id_seq,  \* next value of the serial primary key of movies
    jwks,           \* Signing Key Set: the key identifiers currently published
    now,            \* current time, read by the expiry check
    req,            \* the request in flight (None before the first one)
    authState,      \* NoToken, Decoded, Verified, Authorized or Rejected
    authError,      \* the AuthError raised by the guard (None if none)
    payload,        \* the verified Claims Payload (None until Verified)
    verified_with,  \* history: the key set the Verify step of this request read
    resp,           \* the response to req (None until it is written)
    prev            \* history: the payload and key set of the preceding request
                    \* when it was Authorized and carried the same
                    \* Authorization header to the same route (None otherwise)

vars == <<actors, movies, actors_id_seq, movies_id_seq, jwks, now, req,
          authState, authError, payload, verified_with, resp, prev>>

store == <<actors, movies, actors_id_seq, movies_id_seq>>

(***************************************************************************)
(* Bounds of the model.                                                    *)
(***************************************************************************)
\* Highest primary key the two sequences hand out.
MaxId == 2
\* The clock runs from 0 to MaxNow.
MaxNow == 2

\* Python's None, for the record-valued slots (req, resp, payload, ...).
None == [n \in {} |-> n]

\* config.pagination['page_limit']; config.py is not in the source tree, the
\* value is the model's choice and no claim depends on it.
ROWS_PER_PAGE == 2

(***************************************************************************)
(* Tokens.  A bearer token is modelled by what it decodes to: whether it   *)
(* has the three-segment structure, the key identifier of its header       *)
(* segment, the key that produced its signature, and its claims.           *)
(***************************************************************************)
API_AUDIENCE == "casting"
AUTH0_ISSUER == "https://fsnd.auth0.example/"

AllScopes == {"read:actors", "create:actors", "edit:actors", "delete:actors",
              "read:movies", "create:movies", "edit:movies", "delete:movies"}

\* The three roles of the test suite (test_app.py 11-21).
CastingAssistant == {"read:actors", "read:movies"}
CastingDirector == CastingAssistant \cup
    {"create:actors", "edit:actors", "delete:actors", "edit:movies"}
ExecutiveProducer == AllScopes
\* Strings that resemble scopes without being equal to one.
NearMisses == {"Delete:actors", "delete:actor", "delete:actors:all", "delete:*",
               "delete", "DELETE:MOVIES", "delete:movie", "read:*", "*",
               "read:actors "}

FarFuture == MaxNow + 1

Token(perms) ==
    [wellformed |-> TRUE, has_kid |-> TRUE, kid |-> "k1", signed_by |-> "k1",
     exp |-> FarFuture, aud |-> API_AUDIENCE, iss |-> AUTH0_ISSUER,
     has_permissions |-> TRUE, permissions |-> perms]

\* The claims a token carries; a token issued without scope information has no
\* permissions field at all.
Claims(t) ==
    IF t.has_permissions
    THEN [iss |-> t.iss, aud |-> t.aud, exp |-> t.exp, permissions |-> t.permissions]
    ELSE [iss |-> t.iss, aud |-> t.aud, exp |-> t.exp]

RoleTokens == {Token(CastingAssistant), Token(CastingDirector), Token(ExecutiveProducer)}

Good == Token(ExecutiveProducer)

\* Tokens that fail one or several checks of the chain.
FaultyTokens ==
    {[Good EXCEPT !.wellformed = FALSE],
     [Good EXCEPT !.has_kid = FALSE],
     [Good EXCEPT !.kid = "k9"],
     [Good EXCEPT !.kid = "k9", !.signed_by = "k9"],
     [Good EXCEPT !.kid = "k9", !.exp = 1, !.aud = "other"],
     [Good EXCEPT !.signed_by = "k2"],
     [Good EXCEPT !.signed_by = "k2", !.exp = 0],
     [Good EXCEPT !.has_permissions = FALSE, !.permissions = {}],
     [Good EXCEPT !.permissions = {}],
     [Good EXCEPT !.permissions = NearMisses]}
    \cup {[Good EXCEPT !.exp = e, !.aud = a, !.iss = i] :
            e \in {1, FarFuture}, a \in {API_AUDIENCE, "other"},
            i \in {AUTH0_ISSUER, "https://evil.example/"}}
    \cup {[Token(CastingAssistant) EXCEPT !.kid = "k2", !.signed_by = "k2"]}

(***************************************************************************)
(* Authorization headers.  present = FALSE is a request without the        *)
(* header; otherwise parts is the header value split at spaces, the token  *)
(* part standing for the string that decodes to it.                        *)
(***************************************************************************)
NoHeader == [present |-> FALSE, parts |-> <<>>]
Bearer(t) == [present |-> TRUE, parts |-> <<"Bearer", t>>]

MalformedHeaders ==
    {[present |-> TRUE, parts |-> <<>>],
     [present |-> TRUE, parts |-> <<"Bearer">>],
     [present |-> TRUE, parts |-> <<"Basic", Good>>],
     [present |-> TRUE, parts |-> <<"Bearer", Good, "extra">>]}

\* str.lower() on the scheme words the model uses.
Lower(s) ==
    CASE s = "Bearer" -> "bearer"
      [] s = "BEARER" -> "bearer"
      [] s = "Basic" -> "basic"
      [] OTHER -> s

(***************************************************************************)
(* auth.py, modelled from the specification (sections 4.1-4.4 and 7).      *)
(***************************************************************************)
\* Section 7: the status of each failure kind.
StatusOf(kind) ==
    IF kind \in {"NoPermissionsClaim", "PermissionDenied"} THEN 403 ELSE 401

\* The human-readable message of each failure kind.  The specification fixes
\* the text of MissingHeader and PermissionDenied only.
DescriptionOf(kind) ==
    CASE kind = "MissingHeader" -> "Authorization header is expected."
      [] kind = "PermissionDenied" -> "Permission not found."
      [] OTHER -> kind

\* class AuthError(error, status_code)
AuthError(kind) ==
    [status_code |-> StatusOf(kind),
     error |-> [code |-> kind, description |-> DescriptionOf(kind)]]

\* 4.1 Token Decoder: "ok" or the failure kind.
TokenDecoder(h) ==
    IF ~h.present THEN "MissingHeader"
    ELSE IF Len(h.parts) # 2 \/ Lower(h.parts[1]) # "bearer" THEN "MalformedHeader"
    ELSE IF ~h.parts[2].wellformed \/ ~h.parts[2].has_kid THEN "MalformedToken"
    ELSE "ok"

\* Variant of ClaimsVerifier: the audience and issuer are checked before the
\* expiry.
ClaimsVerifier_claims_first(t, keys, time) ==
    IF t.kid \notin keys THEN "UnknownSigningKey"
    ELSE IF t.signed_by # t.kid THEN "InvalidSignature"
    ELSE IF t.aud # API_AUDIENCE THEN "InvalidAudience"
    ELSE IF t.iss # AUTH0_ISSUER THEN "InvalidIssuer"
    ELSE IF time >= t.exp THEN "Expired"
    ELSE "ok"

\* 4.2 Signature/Claims Verifier, steps 1 to 5 in order: "ok" or the failure
\* kind of the first step that fails.
ClaimsVerifier(t, keys, time) ==
    IF t.kid \notin keys THEN "UnknownSigningKey"
    ELSE IF t.signed_by # t.kid THEN "InvalidSignature"
    ELSE IF time >= t.exp THEN "Expired"
    ELSE IF t.aud # API_AUDIENCE THEN "InvalidAudience"
    ELSE IF t.iss # AUTH0_ISSUER THEN "InvalidIssuer"
    ELSE "ok"

\* 4.3 Scope Authorizer.
ScopeAuthorizer(p, permission) ==
    IF "permissions" \notin DOMAIN p THEN "NoPermissionsClaim"
    ELSE IF permission \notin p.permissions THEN "PermissionDenied"
    ELSE "ok"

(***************************************************************************)
(* app.py: the routes.  A route is named by its view function.             *)
(***************************************************************************)
\* Variant of RequiredScope: the decorators of the two DELETE routes were
\* copied from the GET routes.
RequiredScope_copied(route) ==
    CASE route = "get_actors" -> "read:actors"
      [] route = "insert_actors" -> "create:actors"
      [] route = "edit_actors" -> "edit:actors"
      [] route = "delete_actors" -> "read:actors"
      [] route = "get_movies" -> "read:movies"
      [] route = "insert_movies" -> "create:movies"
      [] route = "edit_movies" -> "edit:movies"
      [] route = "delete_movies" -> "read:movies"

\* The argument of each route's @requires_auth decorator.
RequiredScope(route) ==
    CASE route = "get_actors" -> "read:actors"
      [] route = "insert_actors" -> "create:actors"
      [] route = "edit_actors" -> "edit:actors"
      [] route = "delete_actors" -> "delete:actors"
      [] route = "get_movies" -> "read:movies"
      [] route = "insert_movies" -> "create:movies"
      [] route = "edit_movies" -> "edit:movies"
      [] route = "delete_movies" -> "delete:movies"

(***************************************************************************)
(* Requests: [route, headers, args, id, has_json, json].  args is the      *)
(* query string (None or [page |-> text]); id is the path segment, a       *)
(* string; has_json says whether get_json() returns a value, json is that  *)
(* value (a dict, None standing for {}).                                   *)
(***************************************************************************)
Request(route, h, args, id, has_json, json) ==
    [route |-> route, headers |-> h, args |-> args, id |-> id,
     has_json |-> has_json, json |-> json]

PageArgs == {None, [page |-> "2"], [page |-> "-1"], [page |-> "abc"]}

\* Path segments: the decimal text of 1 .. MaxId + 1 (the last never names a row).
PathIds == {ToString(n) : n \in 1..(MaxId + 1)}

\* Bodies as <<has_json, json>>.
NoJson == <<FALSE, None>>
EmptyJson == <<TRUE, None>>

ActorPostBodies ==
    {NoJson,
     <<TRUE, [age |-> 25]>>,
     <<TRUE, [name |-> "Actor2", age |-> 25]>>,
     <<TRUE, [name |-> "Actor2", age |-> 30, gender |-> "Male"]>>}

ActorPatchBodies ==
    {NoJson, EmptyJson,
     <<TRUE, [age |-> 30]>>,
     <<TRUE, [name |-> "Actor2", gender |-> "Male"]>>}

MoviePostBodies ==
    {NoJson,
     <<TRUE, [release_date |-> "2021-06-01"]>>,
     <<TRUE, [title |-> "Movie2", release_date |-> "2021-06-01"]>>}

MoviePatchBodies ==
    {NoJson, <<TRUE, [release_date |-> "2021-06-01"]>>}

\* Every shape of request to the eight routes under header h.
RequestsWith(h) ==
    {Request(r, h, a, "", FALSE, None) : r \in {"get_actors", "get_movies"}, a \in PageArgs}
    \cup {Request("insert_actors", h, None, "", b[1], b[2]) : b \in ActorPostBodies}
    \cup {Request("insert_movies", h, None, "", b[1], b[2]) : b \in MoviePostBodies}
    \cup {Request("edit_actors", h, None, i, b[1], b[2]) :
            i \in PathIds, b \in ActorPatchBodies}
    \cup {Request("edit_movies", h, None, i, b[1], b[2]) :
            i \in PathIds, b \in MoviePatchBodies}
    \cup {Request(r, h, None, i, FALSE, None) :
            r \in {"delete_actors", "delete_movies"}, i \in PathIds}

CrudHeaders == {NoHeader, Bearer(Token(CastingAssistant)), Bearer(Token(ExecutiveProducer))}

Requests == UNION {RequestsWith(h) : h \in CrudHeaders}

\* The headers of the authorization runs: every role, every faulty token,
\* every malformed header, and the scheme word in other letter cases.
AuthHeaders ==
    {NoHeader} \cup MalformedHeaders
    \cup {Bearer(t) : t \in RoleTokens \cup FaultyTokens}
    \cup {[present |-> TRUE, parts |-> <<"bearer", Token(CastingAssistant)>>],
          [present |-> TRUE, parts |-> <<"BEARER", Good>>]}

\* One request per route under header h.
OnePerRoute(h) ==
    {Request("get_actors", h, None, "", FALSE, None),
     Request("get_movies", h, [page |-> "1"], "", FALSE, None),
     Request("insert_actors", h, None, "", FALSE, None),
     Request("insert_movies", h, None, "", TRUE, [release_date |-> "2021-06-01"]),
     Request("edit_actors", h, None, "1", TRUE, [age |-> 30]),
     Request("edit_movies", h, None, "1", FALSE, None),
     Request("delete_actors", h, None, "1", FALSE, None),
     Request("delete_movies", h, None, "1", FALSE, None)}

AuthRequests == UNION {OnePerRoute(h) : h \in AuthHeaders}

(***************************************************************************)
(* Initial state: create_app() has run db_drop_and_create_all().           *)
(***************************************************************************)
\* models.db_init_records: one actor and one movie, ids from the fresh sequences.
db_init_records ==
    /\ actors = {[id |-> 1, name |-> "Actor1", gender |-> "Female", age |-> 25]}
    /\ movies = {[id |-> 1, title |-> "Movie1", release_date |-> "2020-01-01"]}
    /\ actors_id_seq = 2
    /\ movies_id_seq = 2

Init ==
    /\ db_init_records
    /\ jwks = {"k1", "k2"}
    /\ now = 0
    /\ req = None
    /\ authState = "NoToken"
    /\ authError = None
    /\ payload = None
    /\ verified_with = {}
    /\ resp = None
    /\ prev = None

(***************************************************************************)
(* The Request Guard (requires_auth), one step per component.              *)
(***************************************************************************)
\* A request arrives once the previous one is answered.  A POST is taken only
\* while its table's sequence is within the model's bound.
Receive(r) ==
    /\ req = None \/ resp # None
    /\ r.route = "insert_actors" => actors_id_seq <= MaxId
    /\ r.route = "insert_movies" => movies_id_seq <= MaxId
    /\ req' = r
    /\ authState' = "NoToken"
    /\ authError' = None
    /\ payload' = None
    /\ verified_with' = {}
    /\ resp' = None
    /\ prev' = IF /\ req # None /\ authState = "Authorized"
                  /\ r.headers = req.headers /\ r.route = req.route
               THEN [payload |-> payload, jwks |-> verified_with]
               ELSE None
    /\ UNCHANGED <<store, jwks, now>>

InGuard(state) == req # None /\ resp = None /\ authState = state

Reject(kind) ==
    /\ authState' = "Rejected"
    /\ authError' = AuthError(kind)

Decode ==
    /\ InGuard("NoToken")
    /\ LET kind == TokenDecoder(req.headers) IN
         IF kind = "ok"
         THEN authState' = "Decoded" /\ UNCHANGED authError
         ELSE Reject(kind)
    /\ UNCHANGED <<store, jwks, now, req, payload, verified_with, resp, prev>>

\* Variant of Verify: the check refreshes the published key set as it goes.
Verify_refreshing ==
    /\ InGuard("Decoded")
    /\ LET t == req.headers.parts[2]
           kind == ClaimsVerifier(t, jwks, now) IN
         IF kind = "ok"
         THEN authState' = "Verified" /\ payload' = Claims(t) /\ UNCHANGED authError
         ELSE Reject(kind) /\ UNCHANGED payload
    /\ verified_with' = jwks
    /\ jwks' = IF "k1" \in jwks THEN {"k2"} ELSE {"k1", "k2"}
    /\ UNCHANGED <<store, now, req, resp, prev>>

Verify ==
    /\ InGuard("Decoded")
    /\ LET t == req.headers.parts[2]
           kind == ClaimsVerifier(t, jwks, now) IN
         IF kind = "ok"
         THEN authState' = "Verified" /\ payload' = Claims(t) /\ UNCHANGED authError
         ELSE Reject(kind) /\ UNCHANGED payload
    /\ verified_with' = jwks
    /\ UNCHANGED <<store, jwks, now, req, resp, prev>>

\* Variant of Authorize: the scope check also takes the claims of a token that
\* was decoded and not verified.
Authorize_unverified ==
    /\ InGuard("Verified") \/ InGuard("Decoded")
    /\ LET claims == IF authState = "Verified" THEN payload
                     ELSE Claims(req.headers.parts[2])
           kind == ScopeAuthorizer(claims, RequiredScope(req.route)) IN
         /\ IF kind = "ok"
            THEN authState' = "Authorized" /\ UNCHANGED authError
            ELSE Reject(kind)
         /\ payload' = claims
    /\ UNCHANGED <<store, jwks, now, req, verified_with, resp, prev>>

Authorize ==
    /\ InGuard("Verified")
    /\ LET kind == ScopeAuthorizer(payload, RequiredScope(req.route)) IN
         IF kind = "ok"
         THEN authState' = "Authorized" /\ UNCHANGED authError
         ELSE Reject(kind)
    /\ UNCHANGED <<store, jwks, now, req, payload, verified_with, resp, prev>>

\* Variant of authentification_failed: the message is the error's code.
authentification_failed_code ==
    /\ InGuard("Rejected")
    /\ resp' = [status |-> authError.status_code,
                body |-> [success |-> FALSE,
                          error |-> authError.status_code,
                          message |-> authError.error.code]]
    /\ UNCHANGED <<store, jwks, now, req, authState, authError, payload,
                   verified_with, prev>>

\* Variant of authentification_failed: every AuthError is answered 401.
authentification_failed_401 ==
    /\ InGuard("Rejected")
    /\ resp' = [status |-> 401,
                body |-> [success |-> FALSE,
                          error |-> 401,
                          message |-> authError.error.description]]
    /\ UNCHANGED <<store, jwks, now, req, authState, authError, payload,
                   verified_with, prev>>

\* @app.errorhandler(AuthError)
authentification_failed ==
    /\ InGuard("Rejected")
    /\ resp' = [status |-> authError.status_code,
                body |-> [success |-> FALSE,
                          error |-> authError.status_code,
                          message |-> authError.error.description]]
    /\ UNCHANGED <<store, jwks, now, req, authState, authError, payload,
                   verified_with, prev>>

\* Time passes.
Tick ==
    /\ now < MaxNow
    /\ now' = now + 1
    /\ UNCHANGED <<store, jwks, req, authState, authError, payload,
                   verified_with, resp, prev>>

\* The issuer rotates its keys: k1 is withdrawn, or published again.
RotateKeys ==
    /\ jwks' = IF "k1" \in jwks THEN {"k2"} ELSE {"k1", "k2"}
    /\ UNCHANGED <<store, now, req, authState, authError, payload,
                   verified_with, resp, prev>>

(***************************************************************************)
(* app.py: helpers of the view functions.                                  *)
(***************************************************************************)
\* jsonify(body), status 200.
jsonify(body) == [status |-> 200, body |-> body]

\* get_error_message(error, default_text): error.description['message'], or
\* the default when the description has no such entry.
get_error_message(description, default_text) ==
    IF "message" \in DOMAIN description THEN description.message ELSE default_text

\* @app.errorhandler(422)
unprocessable(description) ==
    [status |-> 422,
     body |-> [success |-> FALSE, error |-> 422,
               message |-> get_error_message(description, "unprocessable")]]

\* @app.errorhandler(400)
bad_request(description) ==
    [status |-> 400,
     body |-> [success |-> FALSE, error |-> 400,
               message |-> get_error_message(description, "bad request")]]

\* @app.errorhandler(404)
ressource_not_found(description) ==
    [status |-> 404,
     body |-> [success |-> FALSE, error |-> 404,
               message |-> get_error_message(description, "resource not found")]]

\* abort(code, description): the response the handler registered for code builds.
abort(code, description) ==
    CASE code = 422 -> unprocessable(description)
      [] code = 400 -> bad_request(description)
      [] code = 404 -> ressource_not_found(description)

\* int(text) on the decimal texts of a small range; other texts raise ValueError.
IntTexts == -3..(MaxId + 2)
IsIntText(text) == \E n \in IntTexts : ToString(n) = text
IntOf(text) == CHOOSE n \in IntTexts : ToString(n) = text

\* request.args.get('page', 1, type=int): the default when the argument is
\* absent or does not convert.
PageOf(args) ==
    IF "page" \in DOMAIN args /\ IsIntText(args.page) THEN IntOf(args.page) ELSE 1

\* Python's s[start:end] on a list, negative and out-of-range indices included.
PySlice(s, start, end) ==
    LET n == Len(s)
        Clamp(i) == IF i < 0 THEN (IF i + n < 0 THEN 0 ELSE i + n)
                    ELSE IF i > n THEN n ELSE i
        lo == Clamp(start)
        hi == Clamp(end)
    IN IF lo < hi THEN SubSeq(s, lo + 1, hi) ELSE <<>>

\* Model.query.all(): the rows as a list, here in primary-key order.  (The
\* query has no ORDER BY; the order only decides which rows a page shows.)
query_all(table) ==
    CHOOSE s \in [1..Cardinality(table) -> table] :
        \A i, j \in 1..Cardinality(table) : i < j => s[i].id < s[j].id

\* Actor.format / Movie.format
Actor_format(a) == [id |-> a.id, name |-> a.name, gender |-> a.gender, age |-> a.age]
Movie_format(m) == [id |-> m.id, title |-> m.title, release_date |-> m.release_date]

paginate_results(args, formatted) ==
    LET page == PageOf(args)
        start == (page - 1) * ROWS_PER_PAGE
        end == start + ROWS_PER_PAGE
    IN PySlice(formatted, start, end)

\* Model.query.filter(Model.id == id_text).one_or_none(): the row whose integer
\* key is the number id_text denotes, or None.  Path segments that denote no
\* integer are outside the model: the database decides what they yield.
one_or_none(table, id_text) ==
    LET found == {row \in table : ToString(row.id) = id_text}
    IN IF found = {} THEN None ELSE CHOOSE row \in found : TRUE

\* "not body" for the value of request.get_json(): None or an empty dict.
NotBody(r) == ~r.has_json \/ DOMAIN r.json = {}

\* "not body.get(key)" for a text field and for a number field.
NotText(json, key) == key \notin DOMAIN json \/ json[key] = ""
NotNumber(json, key) == key \notin DOMAIN json \/ json[key] = 0

\* body.get(key, default)
Get(json, key, default) == IF key \in DOMAIN json THEN json[key] ELSE default

NotFoundText(what, id_text) ==
    what \o " with id " \o id_text \o " not found in database."

\* A view function runs once the guard has returned Authorized for its route.
\* Variant of InView: delete_movies carries no @requires_auth decorator, so
\* its body runs for any request in flight.
InView_undecorated(route) ==
    /\ req # None /\ resp = None
    /\ req.route = route
    /\ (route = "delete_movies" \/ authState = "Authorized")

InView(route) ==
    /\ req # None /\ resp = None
    /\ authState = "Authorized"
    /\ req.route = route

guardVars == <<jwks, now, req, authState, authError, payload, verified_with, prev>>

(***************************************************************************)
(* app.py: the view functions of /actors.                                  *)
(***************************************************************************)
get_actors ==
    /\ InView("get_actors")
    /\ LET selection == query_all(actors)
           actors_paginated ==
               paginate_results(req.args, [i \in DOMAIN selection |-> Actor_format(selection[i])])
       IN resp' = IF Len(actors_paginated) = 0
                  THEN abort(404, [message |-> "no actors found in database."])
                  ELSE jsonify([success |-> TRUE, actors |-> actors_paginated])
    /\ UNCHANGED <<store, guardVars>>

insert_actors ==
    /\ InView("insert_actors")
    /\ LET body == req.json IN
         IF NotBody(req)
         THEN /\ resp' = abort(400, [message |-> "request does not contain a valid JSON body."])
              /\ UNCHANGED store
         ELSE IF NotText(body, "name")
         THEN /\ resp' = abort(422, [message |-> "Name not provided."])
              /\ UNCHANGED store
         ELSE IF NotNumber(body, "age")
         THEN /\ resp' = abort(422, [message |-> "Age not provided."])
              /\ UNCHANGED store
         ELSE IF NotText(body, "gender")
         THEN /\ resp' = abort(422, [message |-> "Gender not provided."])
              /\ UNCHANGED store
         ELSE LET new_actor == [id |-> actors_id_seq, name |-> body.name,
                                gender |-> body.gender, age |-> body.age]
              IN /\ actors' = actors \cup {new_actor}
                 /\ actors_id_seq' = actors_id_seq + 1
                 /\ resp' = jsonify([success |-> TRUE, actor_id |-> new_actor.id])
                 /\ UNCHANGED <<movies, movies_id_seq>>
    /\ UNCHANGED guardVars

\* Variant of edit_actors: the row is looked up before the body is checked.
edit_actors_lookup_first ==
    /\ InView("edit_actors")
    /\ LET body == req.json
           actor_id == req.id
           actor_to_update == one_or_none(actors, actor_id)
       IN IF actor_id = ""
          THEN /\ resp' = abort(400, [message |-> "Actor id is not provided"])
               /\ UNCHANGED store
          ELSE IF actor_to_update = None
          THEN /\ resp' = abort(404, [message |-> NotFoundText("Actor", actor_id)])
               /\ UNCHANGED store
          ELSE IF NotBody(req)
          THEN /\ resp' = abort(400, [message |-> "No data provided"])
               /\ UNCHANGED store
          ELSE LET updated ==
                       [id |-> actor_to_update.id,
                        name |-> Get(body, "name", actor_to_update.name),
                        gender |-> Get(body, "gender", actor_to_update.gender),
                        age |-> Get(body, "age", actor_to_update.age)]
               IN /\ actors' = (actors \ {actor_to_update}) \cup {updated}
                  /\ resp' = jsonify([success |-> TRUE,
                                      updated_actor_id |-> updated.id,
                                      actor |-> <<Actor_format(updated)>>])
                  /\ UNCHANGED <<movies, actors_id_seq, movies_id_seq>>
    /\ UNCHANGED guardVars

edit_actors ==
    /\ InView("edit_actors")
    /\ LET body == req.json
           actor_id == req.id
           actor_to_update == one_or_none(actors, actor_id)
       IN IF actor_id = ""
          THEN /\ resp' = abort(400, [message |-> "Actor id is not provided"])
               /\ UNCHANGED store
          ELSE IF NotBody(req)
          THEN /\ resp' = abort(400, [message |-> "No data provided"])
               /\ UNCHANGED store
          ELSE IF actor_to_update = None
          THEN /\ resp' = abort(404, [message |-> NotFoundText("Actor", actor_id)])
               /\ UNCHANGED store
          ELSE LET updated ==
                       [id |-> actor_to_update.id,
                        name |-> Get(body, "name", actor_to_update.name),
                        gender |-> Get(body, "gender", actor_to_update.gender),
                        age |-> Get(body, "age", actor_to_update.age)]
               IN /\ actors' = (actors \ {actor_to_update}) \cup {updated}
                  /\ resp' = jsonify([success |-> TRUE,
                                      updated_actor_id |-> updated.id,
                                      actor |-> <<Actor_format(updated)>>])
                  /\ UNCHANGED <<movies, actors_id_seq, movies_id_seq>>
    /\ UNCHANGED guardVars

delete_actors ==
    /\ InView("delete_actors")
    /\ LET actor_id == req.id
           actor_to_delete == one_or_none(actors, actor_id)
       IN IF actor_id = ""
          THEN /\ resp' = abort(400, [message |-> "Actor to delete is not provided"])
               /\ UNCHANGED store
          ELSE IF actor_to_delete = None
          THEN /\ resp' = abort(404, [message |-> NotFoundText("Actor", actor_id)])
               /\ UNCHANGED store
          ELSE /\ actors' = actors \ {actor_to_delete}
               /\ resp' = jsonify([success |-> TRUE, deleted_actor_id |-> actor_id])
               /\ UNCHANGED <<movies, actors_id_seq, movies_id_seq>>
    /\ UNCHANGED guardVars

(***************************************************************************)
(* app.py: the view functions of /movies.                                  *)
(***************************************************************************)
get_movies ==
    /\ InView("get_movies")
    /\ LET selection == query_all(movies)
           movies_paginated ==
               paginate_results(req.args, [i \in DOMAIN selection |-> Movie_format(selection[i])])
       IN resp' = IF Len(movies_paginated) = 0
                  THEN abort(404, [message |-> "no movies found"])
                  ELSE jsonify([success |-> TRUE, movies |-> movies_paginated])
    /\ UNCHANGED <<store, guardVars>>

insert_movies ==
    /\ InView("insert_movies")
    /\ LET body == req.json IN
         IF NotBody(req)
         THEN /\ resp' = abort(400, [message |-> "no details provided in body"])
              /\ UNCHANGED store
         ELSE IF NotText(body, "title")
         THEN /\ resp' = abort(422, [message |-> "title not provided."])
              /\ UNCHANGED store
         ELSE IF NotText(body, "release_date")
         THEN /\ resp' = abort(422, [message |-> "Release_date not provided"])
              /\ UNCHANGED store
         ELSE LET new_movie == [id |-> movies_id_seq, title |-> body.title,
                                release_date |-> body.release_date]
              IN /\ movies' = movies \cup {new_movie}
                 /\ movies_id_seq' = movies_id_seq + 1
                 /\ resp' = jsonify([success |-> TRUE, movie_id |-> new_movie.id])
                 /\ UNCHANGED <<actors, actors_id_seq>>
    /\ UNCHANGED guardVars

\* Variant of edit_movies: the title is read from the body without the
\* stored title as default, so a body without title blanks it.
edit_movies_title_required ==
    /\ InView("edit_movies")
    /\ LET body == req.json
           movie_id == req.id
           movie_to_update == one_or_none(movies, movie_id)
       IN IF movie_id = ""
          THEN /\ resp' = abort(400, [message |-> "Movie id not provided"])
               /\ UNCHANGED store
          ELSE IF NotBody(req)
          THEN /\ resp' = abort(400, [message |-> "Update details not found"])
               /\ UNCHANGED store
          ELSE IF movie_to_update = None
          THEN /\ resp' = abort(404, [message |-> NotFoundText("Movie", movie_id)])
               /\ UNCHANGED store
          ELSE LET updated ==
                       [id |-> movie_to_update.id,
                        title |-> Get(body, "title", ""),
                        release_date |-> Get(body, "release_date", movie_to_update.release_date)]
               IN /\ movies' = (movies \ {movie_to_update}) \cup {updated}
                  /\ resp' = jsonify([success |-> TRUE,
                                      updated_movie_id |-> updated.id,
                                      movie |-> <<Movie_format(updated)>>])
                  /\ UNCHANGED <<actors, actors_id_seq, movies_id_seq>>
    /\ UNCHANGED guardVars

edit_movies ==
    /\ InView("edit_movies")
    /\ LET body == req.json
           movie_id == req.id
           movie_to_update == one_or_none(movies, movie_id)
       IN IF movie_id = ""
          THEN /\ resp' = abort(400, [message |-> "Movie id not provided"])
               /\ UNCHANGED store
          ELSE IF NotBody(req)
          THEN /\ resp' = abort(400, [message |-> "Update details not found"])
               /\ UNCHANGED store
          ELSE IF movie_to_update = None
          THEN /\ resp' = abort(404, [message |-> NotFoundText("Movie", movie_id)])
               /\ UNCHANGED store
          ELSE LET updated ==
                       [id |-> movie_to_update.id,
                        title |-> Get(body, "title", movie_to_update.title),
                        release_date |-> Get(body, "release_date", movie_to_update.release_date)]
               IN /\ movies' = (movies \ {movie_to_update}) \cup {updated}
                  /\ resp' = jsonify([success |-> TRUE,
                                      updated_movie_id |-> updated.id,
                                      movie |-> <<Movie_format(updated)>>])
                  /\ UNCHANGED <<actors, actors_id_seq, movies_id_seq>>
    /\ UNCHANGED guardVars

\* Variant of delete_movies: the row is reported deleted and stays.
delete_movies_uncommitted ==
    /\ InView("delete_movies")
    /\ LET movie_id == req.id
           movie_to_delete == one_or_none(movies, movie_id)
       IN IF movie_id = ""
          THEN resp' = abort(400, [message |-> "Movie id not provided"])
          ELSE IF movie_to_delete = None
          THEN resp' = abort(404, [message |-> NotFoundText("Movie", movie_id)])
          ELSE resp' = jsonify([success |-> TRUE, deleted_movie_id |-> movie_id])
    /\ UNCHANGED <<store, guardVars>>

delete_movies ==
    /\ InView("delete_movies")
    /\ LET movie_id == req.id
           movie_to_delete == one_or_none(movies, movie_id)
       IN IF movie_id = ""
          THEN /\ resp' = abort(400, [message |-> "Movie id not provided"])
               /\ UNCHANGED store
          ELSE IF movie_to_delete = None
          THEN /\ resp' = abort(404, [message |-> NotFoundText("Movie", movie_id)])
               /\ UNCHANGED store
          ELSE /\ movies' = movies \ {movie_to_delete}
               /\ resp' = jsonify([success |-> TRUE, deleted_movie_id |-> movie_id])
               /\ UNCHANGED <<actors, actors_id_seq, movies_id_seq>>
    /\ UNCHANGED guardVars

(***************************************************************************)
(* Specifications.  Spec drives the eight routes with every shape of page, *)
(* id and body under the role tokens and without a header.  AuthSpec       *)
(* drives the guard with every header and token the model knows, while the *)
(* clock runs and the key set rotates.                                     *)
(***************************************************************************)
Guard == Decode \/ Verify \/ Authorize \/ authentification_failed

Views ==
    \/ get_actors \/ insert_actors \/ edit_actors \/ delete_actors
    \/ get_movies \/ insert_movies \/ edit_movies \/ delete_movies

Next ==
    \/ \E r \in Requests : Receive(r)
    \/ Guard
    \/ Views

Spec == Init /\ [][Next]_vars

AuthNext ==
    \/ \E r \in AuthRequests : Receive(r)
    \/ Guard
    \/ Views
    \/ Tick
    \/ RotateKeys

AuthSpec == Init /\ [][AuthNext]_vars

(***************************************************************************)
(* Properties.                                                             *)
(***************************************************************************)
\* A request is being served: received and not yet answered.
InFlight == req # None /\ resp = None
\* The request in flight or last served has been answered.
Answered == req # None /\ resp # None
\* The token part of a two-part Authorization header.
TokenOf(r) == r.headers.parts[2]

\* C1: on each of the eight protected routes a request without an
\* Authorization header never gets past the guard, and its answer is status
\* 401 with success false and the message "Authorization header is
\* expected.", whatever its body, page or id.
C1_MissingHeaderIs401 ==
    (req # None /\ ~req.headers.present) =>
        /\ authState \in {"NoToken", "Rejected"}
        /\ resp # None =>
            /\ resp.status = 401
            /\ resp.body.success = FALSE
            /\ resp.body.message = "Authorization header is expected."

\* C1 witness: a DELETE of an existing movie without the header was answered 401.
C1_Witness ==
    /\ Answered
    /\ ~req.headers.present
    /\ req.route = "delete_movies"
    /\ req.id = "1"
    /\ resp.status = 401

\* C2: a verified payload whose permissions do not contain the route's
\* required scope as an equal string is never Authorized: it is rejected as
\* PermissionDenied, status 403, message "Permission not found."; a caller
\* holding only the two read scopes gets that answer on both DELETE routes.
C2_Denied ==
    /\ authState \in {"Verified", "Rejected"}
    /\ authState = "Rejected" =>
        authError = [status_code |-> 403,
                     error |-> [code |-> "PermissionDenied",
                                description |-> "Permission not found."]]
    /\ resp # None =>
        /\ resp.status = 403
        /\ resp.body.success = FALSE
        /\ resp.body.message = "Permission not found."

C2_ScopeMissingIs403 ==
    (req # None /\ payload # None /\ "permissions" \in DOMAIN payload) =>
        /\ RequiredScope(req.route) \notin payload.permissions => C2_Denied
        /\ (/\ req.route = "delete_actors"
            /\ "delete:actors" \notin payload.permissions) => C2_Denied
        /\ (/\ req.route = "delete_movies"
            /\ "delete:movies" \notin payload.permissions) => C2_Denied

\* C2 witness: permissions that only resemble delete:actors were answered 403
\* on DELETE /actors/1.
C2_Witness ==
    /\ Answered
    /\ req.route = "delete_actors"
    /\ payload # None
    /\ "permissions" \in DOMAIN payload
    /\ "Delete:actors" \in payload.permissions
    /\ "delete:actor" \in payload.permissions
    /\ "delete:*" \in payload.permissions
    /\ resp.status = 403

\* C3: the step that leaves Decoded reports the first failing check in the
\* order key lookup, signature, expiry, audience, issuer, and passes to
\* Verified only when none fails.
C3_StepOutcome(kind) ==
    IF kind = "ok"
    THEN authState' = "Verified"
    ELSE authState' = "Rejected" /\ authError'.error.code = kind

C3_FirstFailingStep ==
    [][(InFlight /\ authState = "Decoded" /\ authState' # "Decoded") =>
        LET t == TokenOf(req)
            key_found == t.kid \in jwks
            signature_ok == t.signed_by = t.kid
            not_expired == t.exp > now
            audience_ok == t.aud = API_AUDIENCE
            issuer_ok == t.iss = AUTH0_ISSUER
        IN /\ ~key_found => C3_StepOutcome("UnknownSigningKey")
           /\ (key_found /\ ~signature_ok) => C3_StepOutcome("InvalidSignature")
           /\ (key_found /\ signature_ok /\ ~not_expired) => C3_StepOutcome("Expired")
           /\ (key_found /\ signature_ok /\ not_expired /\ ~audience_ok) =>
                 C3_StepOutcome("InvalidAudience")
           /\ (key_found /\ signature_ok /\ not_expired /\ audience_ok /\ ~issuer_ok) =>
                 C3_StepOutcome("InvalidIssuer")
           /\ (key_found /\ signature_ok /\ not_expired /\ audience_ok /\ issuer_ok) =>
                 C3_StepOutcome("ok")
    ]_vars

\* C3 witness: a validly signed token with a wrong audience and a wrong issuer
\* was rejected as Expired.
C3_Witness ==
    /\ req # None
    /\ authState = "Rejected"
    /\ authError.error.code = "Expired"
    /\ TokenOf(req).aud # API_AUDIENCE
    /\ TokenOf(req).iss # AUTH0_ISSUER
    /\ TokenOf(req).signed_by = TokenOf(req).kid

\* C4: while a request is served its authorization state only moves
\* NoToken -> Decoded -> Verified -> Authorized or jumps to Rejected;
\* Authorized and Rejected are left by no step of that request; a payload
\* becomes Verified only after the signature, expiry, audience and issuer
\* checks passed; and the scope check (the step that ends in Authorized or in
\* a permission failure) starts from Verified with that payload.
C4_Edge(from, to) ==
    \/ to = from
    \/ from = "NoToken" /\ to = "Decoded"
    \/ from = "Decoded" /\ to = "Verified"
    \/ from = "Verified" /\ to = "Authorized"
    \/ from \in {"NoToken", "Decoded", "Verified"} /\ to = "Rejected"

C4_StateMachine ==
    [][InFlight =>
        /\ C4_Edge(authState, authState')
        /\ authState \in {"Authorized", "Rejected"} =>
              UNCHANGED <<authState, authError, payload>>
        /\ (authState # "Verified" /\ authState' = "Verified") =>
              LET t == TokenOf(req) IN
                /\ t.kid \in jwks /\ t.signed_by = t.kid
                /\ t.exp > now
                /\ t.aud = API_AUDIENCE /\ t.iss = AUTH0_ISSUER
                /\ payload' = Claims(t)
        /\ (/\ authState' # authState
            /\ \/ authState' = "Authorized"
               \/ /\ authState' = "Rejected"
                  /\ authError'.error.code \in {"NoPermissionsClaim", "PermissionDenied"})
           => (authState = "Verified" /\ payload # None /\ payload' = payload)
    ]_vars

\* C4 witness: a request whose token expires later was Authorized and answered
\* after the clock had moved on.
C4_Witness ==
    /\ Answered
    /\ authState = "Authorized"
    /\ payload # None
    /\ now > 0

\* C5: every failure of the chain is an AuthError of one of the ten kinds with
\* the status of its class (401 for the header, token, key, signature, expiry,
\* audience and issuer failures, 403 for the two permission failures); the
\* answer to a rejected request is that status with the body success false,
\* error that status, message the failure's description; and no request with
\* a failing input (missing or malformed header, malformed token, unknown
\* key, bad signature, expired token, wrong audience or issuer, no
\* permissions claim, scope not granted) becomes Authorized.
C5_Kinds401 == {"MissingHeader", "MalformedHeader", "MalformedToken",
                "UnknownSigningKey", "InvalidSignature", "Expired",
                "InvalidAudience", "InvalidIssuer"}
C5_Kinds403 == {"NoPermissionsClaim", "PermissionDenied"}

C5_HeaderOk(h) ==
    /\ h.present
    /\ Len(h.parts) = 2
    /\ h.parts[1] \in {"Bearer", "bearer", "BEARER"}

C5_Classified ==
    /\ authState = "Rejected" =>
        /\ authError.error.code \in C5_Kinds401 \cup C5_Kinds403
        /\ authError.error.code \in C5_Kinds401 => authError.status_code = 401
        /\ authError.error.code \in C5_Kinds403 => authError.status_code = 403
        /\ ~C5_HeaderOk(req.headers) =>
              authError.error.code \in {"MissingHeader", "MalformedHeader"}
        /\ resp # None =>
              resp = [status |-> authError.status_code,
                      body |-> [success |-> FALSE,
                                error |-> authError.status_code,
                                message |-> authError.error.description]]
    /\ authState \in {"Decoded", "Verified", "Authorized"} =>
        /\ C5_HeaderOk(req.headers)
        /\ TokenOf(req).wellformed /\ TokenOf(req).has_kid
    /\ authState \in {"Verified", "Authorized"} =>
        /\ TokenOf(req).signed_by = TokenOf(req).kid
        /\ TokenOf(req).kid \in verified_with
        /\ TokenOf(req).aud = API_AUDIENCE
        /\ TokenOf(req).iss = AUTH0_ISSUER
    /\ authState = "Authorized" =>
        /\ TokenOf(req).has_permissions
        /\ RequiredScope(req.route) \in TokenOf(req).permissions
        /\ authError = None
        /\ resp # None => resp.status \notin {401, 403}

C5_FailuresClassified ==
    [][/\ C5_Classified'
       /\ (InFlight /\ authState = "Decoded" /\ authState' = "Verified") =>
             (TokenOf(req).exp > now /\ TokenOf(req).kid \in jwks)
    ]_vars

\* C5 witness: a header of three parts was answered 401.
C5_Witness ==
    /\ Answered
    /\ req.headers.present
    /\ Len(req.headers.parts) = 3
    /\ authState = "Rejected"
    /\ authError.error.code = "MalformedHeader"
    /\ resp.status = 401

ViewStep(route) ==
    /\ InFlight
    /\ authState = "Authorized"
    /\ req.route = route
    /\ resp' # None

\* C7 (the claim as stated): an authorized POST /actors whose JSON body gives
\* a name and an age is answered 200 with success true and actor_id the id
\* of the newly stored actor, which is 2 when only the initial actor existed.
C7_CreateWithNameAndAge ==
    [][(/\ ViewStep("insert_actors")
        /\ req.has_json
        /\ {"name", "age"} \subseteq DOMAIN req.json
        /\ req.json.name # "" /\ req.json.age # 0) =>
        /\ resp'.status = 200
        /\ resp'.body.success = TRUE
        /\ \E a \in actors' \ actors :
              /\ resp'.body.actor_id = a.id
              /\ a.name = req.json.name /\ a.age = req.json.age
        /\ (\A a \in actors : a.id = 1) => resp'.body.actor_id = 2
    ]_vars

\* C8 (the claim as stated): an authorized GET /movies, resp. GET /actors,
\* whose page of the list is empty is answered 404 with success false and
\* the message 'no movies found in database.', resp. 'no actors found in
\* database.'.
C8_EmptyPageIs404 ==
    [][/\ (/\ ViewStep("get_movies")
           /\ paginate_results(req.args, query_all(movies)) = <<>>) =>
            /\ resp'.status = 404
            /\ resp'.body.success = FALSE
            /\ resp'.body.message = "no movies found in database."
       /\ (/\ ViewStep("get_actors")
           /\ paginate_results(req.args, query_all(actors)) = <<>>) =>
            /\ resp'.status = 404
            /\ resp'.body.success = FALSE
            /\ resp'.body.message = "no actors found in database."
    ]_vars

\* C9: an authorized PATCH /actors/<id>, resp. /movies/<id>, without a JSON
\* body is answered 400 with 'No data provided', resp. 'Update details not
\* found', whether or not a row has that id; 404 is answered only to a
\* request with a body; and a 400 or 404 answer leaves both tables and both
\* sequences as they were.
C9_Edit(route, message) ==
    ViewStep(route) =>
        /\ ~req.has_json =>
            /\ resp'.status = 400
            /\ resp'.body.success = FALSE
            /\ resp'.body.message = message
        /\ resp'.status = 404 => (req.has_json /\ DOMAIN req.json # {})
        /\ resp'.status \in {400, 404} => UNCHANGED store

C9_PatchWithoutBodyIs400 ==
    [][/\ C9_Edit("edit_actors", "No data provided")
       /\ C9_Edit("edit_movies", "Update details not found")
    ]_vars

\* C9 witness: a PATCH without body for an id no actor has was answered 400.
C9_Witness ==
    /\ Answered
    /\ authState = "Authorized"
    /\ req.route = "edit_actors"
    /\ ~req.has_json
    /\ \A a \in actors : ToString(a.id) # req.id
    /\ resp.status = 400

\* C10: an authorized DELETE /actors/<id>, resp. /movies/<id>, of an id that
\* has a row removes that row and nothing else and is answered 200 with the
\* id; of an id without a row it is answered 404 with 'Actor (Movie) with id
\* <id> not found in database.' and changes nothing; and an id once handed
\* out and deleted never has a row again, so a later DELETE of it is that 404.
C10_Delete(route, table, other, what, key) ==
    ViewStep(route) =>
        LET rows == {row \in table : row.id = IntOf(req.id)} IN
        IF rows # {}
        THEN /\ Cardinality(rows) = 1
             /\ table' = table \ rows
             /\ other' = other
             /\ resp'.status = 200
             /\ resp'.body.success = TRUE
             /\ resp'.body[key] = req.id
        ELSE /\ resp'.status = 404
             /\ resp'.body.success = FALSE
             /\ resp'.body.message =
                    what \o " with id " \o req.id \o " not found in database."
             /\ UNCHANGED store

C10_StaysDeleted(table, seq) ==
    (table' # table \/ seq' # seq) =>
        /\ \A row \in table' : row.id < seq'
        /\ \A i \in 1..(MaxId + 1) :
              (i < seq /\ \A row \in table : row.id # i) =>
                  \A row \in table' : row.id # i

C10_DeleteRemovesExactlyOne ==
    [][/\ C10_Delete("delete_actors", actors, movies, "Actor", "deleted_actor_id")
       /\ C10_Delete("delete_movies", movies, actors, "Movie", "deleted_movie_id")
       /\ C10_StaysDeleted(actors, actors_id_seq)
       /\ C10_StaysDeleted(movies, movies_id_seq)
    ]_vars

\* C10 witness: actor 1 was deleted, a second actor has been created since,
\* and a DELETE of /actors/1 was answered 404.
C10_Witness ==
    /\ Answered
    /\ authState = "Authorized"
    /\ req.route = "delete_actors"
    /\ req.id = "1"
    /\ actors # {}
    /\ resp.status = 404

\* What a step of the guarded application may do to the stored records: a
\* step changes them only as the answering step of a view function whose
\* request the guard authorized for the scope of its route, and a step that
\* leaves or answers a request in the Rejected state changes none of them.
C11_Step ==
    /\ (store' # store) =>
           /\ InFlight
           /\ authState = "Authorized"
           /\ payload # None
           /\ RequiredScope(req.route) \in payload.permissions
           /\ resp' # None
           /\ resp'.status = 200
    /\ (authState = "Rejected" \/ authState' = "Rejected") => store' = store
    /\ (resp = None /\ resp' # None /\ resp'.status \in {401, 403}) =>
           /\ authState = "Rejected"
           /\ req' = req
           /\ store' = store

\* C11: the body of a route handler runs only after the guard authorized
\* the request for the scope of its route; a request answered 401 or 403
\* leaves the actors, the movies and all their fields exactly as they were,
\* whatever its body and id.
C11_RejectedLeavesStore == [][C11_Step]_vars

\* C11 witness: a DELETE of /movies/1 carrying a token without
\* delete:movies was answered 403 while movie 1 exists.
C11_Witness ==
    /\ Answered
    /\ req.route = "delete_movies"
    /\ req.id = "1"
    /\ resp.status = 403
    /\ \E movie \in movies : movie.id = 1

\* The effect of a PATCH answered 200 on the table it addresses: the row
\* with the addressed id is replaced by a row with the same id in which each
\* field that is a key of the body holds the body's value and each other
\* field its old value, every other row stays, and reported is that id.
C12_Edit(route, rows, rows_after, fields, reported) ==
    (ViewStep(route) /\ resp'.status = 200) =>
        \E old \in rows : \E new \in rows_after :
            /\ ToString(old.id) = req.id
            /\ new.id = old.id
            /\ rows_after \ {new} = rows \ {old}
            /\ \A other \in rows_after \ {new} : other.id # new.id
            /\ DOMAIN new = DOMAIN old
            /\ \A field \in fields :
                   new[field] = IF field \in DOMAIN req.json
                                THEN req.json[field]
                                ELSE old[field]
            /\ reported = old.id

\* C12: a successful PATCH /actors/<id> sets exactly the fields among name,
\* age and gender that are keys of the body and leaves the other fields,
\* the id, every other actor and all movies unchanged; PATCH /movies/<id>
\* does the same for title and release_date; the response reports the
\* addressed id.
C12_PatchChangesOnlyBodyKeys ==
    [][/\ C12_Edit("edit_actors", actors, actors', {"name", "age", "gender"},
                   resp'.body.updated_actor_id)
       /\ (ViewStep("edit_actors") /\ resp'.status = 200) =>
              UNCHANGED <<movies, actors_id_seq, movies_id_seq>>
       /\ C12_Edit("edit_movies", movies, movies', {"title", "release_date"},
                   resp'.body.updated_movie_id)
       /\ (ViewStep("edit_movies") /\ resp'.status = 200) =>
              UNCHANGED <<actors, actors_id_seq, movies_id_seq>>
    ]_vars

\* C12 witness: with two actors stored, PATCH /actors/1 with only an age
\* was answered 200, and actor 1 has the new age with its name and gender.
C12_Witness ==
    /\ Answered
    /\ req.route = "edit_actors"
    /\ req.id = "1"
    /\ req.has_json
    /\ req.json = [age |-> 30]
    /\ resp.status = 200
    /\ resp.body.updated_actor_id = 1
    /\ [id |-> 1, name |-> "Actor1", gender |-> "Female", age |-> 30] \in actors
    /\ \E other \in actors : other.id = 2

====
